---- MODULE Spec2Model ----
(***************************************************************************)
(* Media proxy of the ExerciseDB API (class App, initializeMediaProxy and  *)
(* initializeGlobalMiddleware).  A request is a Hono context c; its        *)
(* handler runs in three segments separated by the two awaits              *)
(* (fs.readFile, axios.get), so several requests interleave.               *)
(*                                                                         *)
(* Library behaviour the handlers rely on (Hono 4, axios):                 *)
(*  - c.res.headers.set(k, v) writes the header k of the pending response; *)
(*    c.json / c.body build the response from those pending headers, and   *)
(*    c.json replaces Content-Type by application/json;                    *)
(*  - cors() sets Access-Control-Allow-Origin on c.res, and answers an     *)
(*    OPTIONS request itself (204, Access-Control-Allow-Methods joined     *)
(*    with ',') without calling next();                                    *)
(*  - axios.get rejects on a transport error, on its timeout and on a      *)
(*    status outside 2xx (default validateStatus).                         *)
(*                                                                         *)
(* logger(), prettyJSON() and the X-Response-Time middleware are left out: *)
(* they add a log line and a timing header to a response and touch neither *)
(* its status, its body nor the headers the handlers set.                  *)
(***************************************************************************)
EXTENDS Integers, Sequences, FiniteSets, TLC

\* ---------------------------------------------------------------- bounds
MaxRequests == 2

Requests == 1..MaxRequests

\* ------------------------------------------------------------- filenames
\* A filename is a sequence of characters; <<>> stands for both '' and an
\* absent parameter (both are falsy in `!filename`).
Gif == <<".", "g", "i", "f">>
DotDot == <<".", ".">>
Slash == <<"/">>

NameA == <<"a">> \o Gif
NameB == <<"b">> \o Gif
NameEmpty == <<>>
NameTraversal == DotDot \o Slash \o NameA
NameSubdir == <<"a">> \o Slash \o NameB
NameDotDot == <<"a", ".">> \o Gif
NamePng == <<"a", ".", "p", "n", "g">>
NameShort == <<"g", "i", "f">>

Filenames ==
  {NameA, NameB, NameEmpty, NameTraversal, NameSubdir, NameDotDot, NamePng, NameShort}

\* String.prototype.includes
includes(s, sub) ==
  \E i \in 1..(Len(s) - Len(sub) + 1) : SubSeq(s, i, i + Len(sub) - 1) = sub

\* String.prototype.endsWith
endsWith(s, suf) ==
  /\ Len(s) >= Len(suf)
  /\ SubSeq(s, Len(s) - Len(suf) + 1, Len(s)) = suf

\* Variant: the validation without its '..' test.
InvalidFilenameNoDotDot(filename) ==
  \/ filename = <<>>
  \/ includes(filename, Slash)
  \/ ~endsWith(filename, Gif)

\* The rejection test of the GET handler.
InvalidFilename(filename) ==
  \/ filename = <<>>
  \/ includes(filename, DotDot)
  \/ includes(filename, Slash)
  \/ ~endsWith(filename, Gif)

\* --------------------------------------------------------------- headers
\* Headers are a set of <<name, value>> pairs with at most one pair a name.
HeadersSet(h, k, v) == {p \in h : p[1] # k} \cup {<<k, v>>}

HeadersHas(h, k) == \E p \in h : p[1] = k

HeadersGet(h, k) == IF HeadersHas(h, k) THEN (CHOOSE p \in h : p[1] = k)[2] ELSE "(none)"

ACAO == "Access-Control-Allow-Origin"
ACAM == "Access-Control-Allow-Methods"
ACAH == "Access-Control-Allow-Headers"
ContentType == "Content-Type"
CacheControl == "Cache-Control"

Immutable == "public, max-age=31536000, immutable"

\* ----------------------------------------------------------- the two tiers
\* What fs.readFile finds under media/<filename>: the file's bytes, or the
\* error code of the failed read.
LocalBytes == {"localGif"}
LocalErrors == {"ENOENT", "EACCES"}

\* What the CDN may answer a GET of /media/<filename> with.
OriginAnswers ==
  { [status |-> 200, data |-> "cdnGif"],
    [status |-> 204, data |-> "empty"],
    [status |-> 404, data |-> "missing"] }

\* How the transport of one axios.get ends.
Transports == {"response", "network", "timeout"}

ValidNames == {f \in Filenames : ~InvalidFilename(f)}

\* timeout: 15000 of the axios.get call
TimeoutMs == 15000

CdnBase == "https://v1.cdn.exercisedb.dev/media/"

VARIABLES
  localStore,    \* media/<filename> on disk: bytes or the read's error code
  req            \* req[i]: the Hono context c of request i

vars == <<localStore, req>>

\* ----------------------------------------------------------- the context
NoHeaders == {}

\* A slot no request has arrived in yet.
Idle ==
  [ method |-> "-", filename |-> <<>>, acrh |-> "-", pc |-> "idle",
    headers |-> NoHeaders, sent |-> <<>>, reads |-> <<>>, fetches |-> <<>>,
    inFlight |-> {}, localResult |-> "-", cdnResult |-> <<>>,
    logged |-> <<>>, unhandled |-> FALSE ]

\* The context of a request that has just arrived.  acrh is the request's
\* Access-Control-Request-Headers header ("-" when it has none).
NewContext(method, filename, acrh) ==
  [Idle EXCEPT !.method = method, !.filename = filename, !.acrh = acrh,
               !.pc = "received"]

\* The handler returns a Response: it is sent and the request is over.
Respond(c, status, headers, payload) ==
  [c EXCEPT !.sent = Append(@, [status |-> status, headers |-> headers, body |-> payload]),
            !.pc = "done", !.inFlight = {}]

\* Variant: a JSON answer stamped from a counter shared by all requests.
jsonCounted(c, message, status) ==
  Respond(c, status,
          HeadersSet(HeadersSet(c.headers, ContentType, "application/json"),
                     "X-Served",
                     IF \E k \in DOMAIN req : req[k].pc = "done" THEN "later" ELSE "first"),
          <<"json", message>>)

\* c.json({ success: false, message }, status)
json(c, message, status) ==
  Respond(c, status,
          HeadersSet(c.headers, ContentType, "application/json"),
          <<"json", message>>)

\* c.body(data) and c.body(data, status)
body(c, data, status) == Respond(c, status, c.headers, data)

\* console.error(prefix, message)
consoleError(c, prefix, message) == [c EXCEPT !.logged = Append(@, <<prefix, message>>)]

\* c.res.headers.set(k, v)
resHeadersSet(c, k, v) == [c EXCEPT !.headers = HeadersSet(@, k, v)]

\* app.onError: an exception that leaves a handler becomes a JSON answer
\* with the error's status or 500.
onError(c, message) == json([c EXCEPT !.unhandled = TRUE], message, 500)

\* ------------------------------------------------------ OPTIONS handler
SetCorsHeaders(c) ==
  resHeadersSet(resHeadersSet(resHeadersSet(c, ACAO, "*"), ACAM, "GET, OPTIONS"), ACAH, "*")

OptionsHandler(c) == body(SetCorsHeaders(c), <<"null", "">>, 204)

\* ---------------------------------------------------------- GET handler
\* path.resolve(process.cwd(), 'media', filename)
MediaPath(filename) == <<"cwd", "media", filename>>

CdnUrl(filename) == <<CdnBase, filename>>

\* The five headers set once the filename has passed the validation.
SetGetHeaders(c) ==
  resHeadersSet(resHeadersSet(SetCorsHeaders(c), ContentType, "image/gif"),
                CacheControl, Immutable)

\* await axios.get(cdnUrl, {...}): the fetch is issued and the handler suspends.
StartCdnFetch(c) ==
  [c EXCEPT !.fetches = Append(@, [op |-> "GET", url |-> CdnUrl(c.filename),
                                      timeout |-> TimeoutMs]),
            !.inFlight = @ \cup {"cdn"},
            !.pc = "axiosGet"]

\* Variant: the CDN fetch is started together with the local read.
StartLocalReadSpeculative(c) ==
  [StartCdnFetch(c) EXCEPT
     !.reads = Append(@, [op |-> "readFile", path |-> MediaPath(c.filename)]),
     !.inFlight = @ \cup {"local"},
     !.pc = "readFile"]

\* await fs.readFile(mediaPath): the read is issued and the handler suspends.
StartLocalRead(c) ==
  [c EXCEPT !.reads = Append(@, [op |-> "readFile", path |-> MediaPath(c.filename)]),
            !.inFlight = @ \cup {"local"},
            !.pc = "readFile"]

\* First segment of the GET handler: validation, headers, local read issued.
GetHandler(c) ==
  IF InvalidFilename(c.filename)
    THEN json(c, "Invalid filename", 400)
    ELSE StartLocalRead(SetGetHeaders(c))

\* Variant: a local error other than ENOENT ends the request.
LocalCatchFatal(c, code) ==
  IF code # "ENOENT"
    THEN json(consoleError(c, "Error reading local file:", code), "Media not found", 404)
    ELSE StartCdnFetch(c)

\* catch (localError): log unless the file is just missing, then go to the CDN.
LocalCatch(c, code) ==
  StartCdnFetch(IF code # "ENOENT"
                  THEN consoleError(c, "Error reading local file:", code)
                  ELSE c)

\* Variant: the bytes read locally are dropped and the CDN is asked anyway.
AfterLocalReadIgnored(c, result) ==
  LocalCatch([c EXCEPT !.inFlight = @ \ {"local"}, !.localResult = result], "ENOENT")

\* Second segment: the local read has returned `result` (bytes or error code).
AfterLocalRead(c, result) ==
  LET d == [c EXCEPT !.inFlight = @ \ {"local"}, !.localResult = result]
  IN  IF result \in LocalBytes
        THEN body(d, <<"bytes", result>>, 200)
        ELSE LocalCatch(d, result)

\* What axios.get settles with: a response (status 2xx) or a rejection.
AxiosOutcome(transport, answer) ==
  CASE transport = "network" -> [kind |-> "error", status |-> 0, data |-> "Network Error"]
    [] transport = "timeout" -> [kind |-> "error", status |-> 0, data |-> "timeout of 15000ms exceeded"]
    [] OTHER ->
         IF answer.status >= 200 /\ answer.status < 300
           THEN [kind |-> "response", status |-> answer.status, data |-> answer.data]
           ELSE [kind |-> "error", status |-> answer.status, data |-> "Request failed"]

\* Variant: the CDN error is logged and thrown again.
CdnCatchRethrow(c, message) ==
  onError(consoleError(c, "Error fetching from CDN:", message), message)

\* catch (cdnError)
CdnCatch(c, message) ==
  json(consoleError(c, "Error fetching from CDN:", message), "Media not found", 404)

\* Variant: a CDN answer other than 200 is left without any response.
AfterCdnFetchNoAnswer(c, outcome) ==
  LET d == [c EXCEPT !.inFlight = @ \ {"cdn"},
                     !.cdnResult = <<outcome.kind, outcome.status, outcome.data>>]
  IN  IF outcome.kind = "error"
        THEN CdnCatch(d, outcome.data)
        ELSE IF outcome.status # 200
               THEN [d EXCEPT !.pc = "hung"]
               ELSE body(d, <<"bytes", outcome.data>>, 200)

\* Third segment: axios.get has settled with `outcome`.
AfterCdnFetch(c, outcome) ==
  LET d == [c EXCEPT !.inFlight = @ \ {"cdn"},
                     !.cdnResult = <<outcome.kind, outcome.status, outcome.data>>]
  IN  IF outcome.kind = "error"
        THEN CdnCatch(d, outcome.data)
        ELSE IF outcome.status # 200
               THEN json(d, "Media not found", 404)
               ELSE body(d, <<"bytes", outcome.data>>, 200)

\* ----------------------------------------------------- global middleware
\* The routes registered for /api/v1/media/:filename.
Route(c) ==
  IF c.method = "OPTIONS" THEN OptionsHandler(c) ELSE GetHandler(c)

\* cors({ origin: '*', allowMethods: ['GET', 'OPTIONS'] }) in front of the routes.
cors(c) ==
  LET a == resHeadersSet(c, ACAO, "*")
  IN  IF a.method = "OPTIONS"
        THEN LET m == resHeadersSet(a, ACAM, "GET,OPTIONS")
                 h == IF a.acrh # "-"
                        THEN resHeadersSet(resHeadersSet(m, ACAH, a.acrh),
                                           "Vary", "Access-Control-Request-Headers")
                        ELSE m
             IN  body(h, <<"null", "">>, 204)
        ELSE Route(a)

\* ---------------------------------------------------------------- actions
Init ==
  /\ localStore \in [ValidNames -> LocalBytes \cup LocalErrors]
  /\ req = [i \in Requests |-> Idle]

\* Requests are numbered in their order of arrival.
NextSlot(i) ==
  /\ req[i].pc = "idle"
  /\ \A j \in Requests : j < i => req[j].pc # "idle"

\* GET /api/v1/media/:filename arrives and runs up to its first await.
Get(i, filename) ==
  /\ NextSlot(i)
  /\ req' = [req EXCEPT ![i] = cors(NewContext("GET", filename, "-"))]
  /\ UNCHANGED localStore

\* OPTIONS /api/v1/media/:filename arrives.
Options(i, filename, acrh) ==
  /\ NextSlot(i)
  /\ req' = [req EXCEPT ![i] = cors(NewContext("OPTIONS", filename, acrh))]
  /\ UNCHANGED localStore

\* The local read of request i returns.
LocalReadReturns(i) ==
  /\ req[i].pc = "readFile"
  /\ req' = [req EXCEPT ![i] = AfterLocalRead(@, localStore[@.filename])]
  /\ UNCHANGED localStore

\* The CDN fetch of request i settles.
CdnFetchSettles(i, outcome) ==
  /\ req[i].pc = "axiosGet"
  /\ req' = [req EXCEPT ![i] = AfterCdnFetch(@, outcome)]
  /\ UNCHANGED localStore

PreflightHeaders == {"-", "content-type"}

\* Every way an axios.get can settle.
Settlements == {AxiosOutcome(t, a) : t \in Transports, a \in OriginAnswers}

Next ==
  \/ \E i \in Requests, f \in Filenames : Get(i, f)
  \/ \E i \in Requests, f \in Filenames, h \in PreflightHeaders : Options(i, f, h)
  \/ \E i \in Requests : LocalReadReturns(i)
  \/ \E i \in Requests, o \in Settlements : CdnFetchSettles(i, o)

Spec == Init /\ [][Next]_vars

\* The I/O of a request returns: the local read always does, the fetch within
\* its timeout.
FairSpec ==
  /\ Spec
  /\ \A i \in Requests : WF_vars(LocalReadReturns(i))
  /\ \A i \in Requests : WF_vars(\E o \in Settlements : CdnFetchSettles(i, o))

\* ------------------------------------------------------------ vocabulary
Arrived(c) == c.pc # "idle"

Done(c) == c.pc = "done"

IsGet(c) == Arrived(c) /\ c.method = "GET"

IsOptions(c) == Arrived(c) /\ c.method = "OPTIONS"

\* The response of a finished request.
Resp(c) == c.sent[1]

\* A filename as the validator's contract words it: non-empty, no '/', no
\* '..', ending in '.gif'.
WellFormedName(f) ==
  /\ Len(f) > 0
  /\ \A k \in 1..Len(f) : f[k] # "/"
  /\ \A k \in 1..(Len(f) - 1) : ~(f[k] = "." /\ f[k + 1] = ".")
  /\ Len(f) >= 4
  /\ f[Len(f) - 3] = "." /\ f[Len(f) - 2] = "g" /\ f[Len(f) - 1] = "i" /\ f[Len(f)] = "f"

NoIO(c) == c.reads = <<>> /\ c.fetches = <<>>

InvalidBody == <<"json", "Invalid filename">>

NotFoundBody == <<"json", "Media not found">>

HasCorsHeaders(h) ==
  /\ HeadersGet(h, ACAO) = "*"
  /\ HeadersGet(h, ACAM) = "GET, OPTIONS"
  /\ HeadersGet(h, ACAH) = "*"

CdnHit(c) == c.cdnResult # <<>> /\ c.cdnResult[1] = "response" /\ c.cdnResult[2] = 200

CdnMiss(c) == c.cdnResult # <<>> /\ ~CdnHit(c)

\* ------------------------------------------------------------------ C1
\* C1: a GET whose filename is empty, contains '..', contains '/' or does not
\* end in '.gif' is answered 400 {success:false, message:'Invalid filename'}
\* with no local read and no CDN fetch; a read or fetch is only ever issued
\* for a well-formed filename.
C1_InvalidRejectedWithoutIO ==
  \A i \in Requests :
    LET c == req[i] IN
      /\ (IsGet(c) /\ ~WellFormedName(c.filename)) =>
           /\ Done(c) /\ Len(c.sent) = 1
           /\ Resp(c).status = 400
           /\ Resp(c).body = InvalidBody
           /\ NoIO(c)
      /\ ~NoIO(c) => WellFormedName(c.filename)

C1_Witness ==
  /\ \E i \in Requests :
       IsGet(req[i]) /\ req[i].filename = NameDotDot /\ Resp(req[i]).status = 400
  /\ \E i \in Requests : req[i].fetches # <<>>

\* ------------------------------------------------------------------ C2
\* C2: when the local read of a valid filename succeeds, the GET is answered
\* 200 with exactly the bytes stored locally and the CDN is never contacted.
C2_LocalHitServedWithoutCdn ==
  \A i \in Requests :
    LET c == req[i] IN
      (IsGet(c) /\ c.localResult \in LocalBytes) =>
        /\ Done(c) /\ Len(c.sent) = 1
        /\ Resp(c).status = 200
        /\ Resp(c).body = <<"bytes", localStore[c.filename]>>
        /\ Len(c.reads) = 1
        /\ c.fetches = <<>>

C2_Witness ==
  \E i \in Requests :
    IsGet(req[i]) /\ req[i].localResult \in LocalBytes /\ Resp(req[i]).status = 200

\* ------------------------------------------------------------------ C3
\* C3: a valid filename absent locally and served 200 by the CDN is answered
\* 200 with the CDN's bytes after exactly one local read and one fetch; the
\* fetch begins only after the local read has failed, and the two are never
\* in flight together.
C3_LocalThenCdnInOrder ==
  \A i \in Requests :
    LET c == req[i] IN
      /\ (IsGet(c) /\ Done(c) /\ c.localResult = "ENOENT" /\ CdnHit(c)) =>
           /\ localStore[c.filename] = "ENOENT"
           /\ Len(c.sent) = 1
           /\ Resp(c).status = 200
           /\ Resp(c).body = <<"bytes", c.cdnResult[3]>>
           /\ Len(c.reads) = 1 /\ Len(c.fetches) = 1
      /\ ~({"local", "cdn"} \subseteq c.inFlight)
      /\ c.fetches # <<>> =>
           /\ "local" \notin c.inFlight
           /\ c.localResult \in LocalErrors
           /\ Len(c.reads) = 1

C3_Witness ==
  \E i \in Requests :
    /\ IsGet(req[i]) /\ Done(req[i]) /\ req[i].localResult = "ENOENT" /\ CdnHit(req[i])
    /\ Resp(req[i]).body = <<"bytes", "cdnGif">>

\* ------------------------------------------------------------------ C4
\* C4: for a valid filename the local store did not serve, every CDN failure
\* (status other than 200, transport error, timeout) ends the request with
\* 404 {success:false, message:'Media not found'}; no exception leaves the
\* handler and a valid GET never ends with a status other than 200 or 404.
C4_RemoteFailureIs404 ==
  \A i \in Requests :
    LET c == req[i] IN
      /\ (IsGet(c) /\ CdnMiss(c)) =>
           /\ Done(c) /\ Len(c.sent) = 1
           /\ Resp(c).status = 404
           /\ Resp(c).body = NotFoundBody
      /\ (IsGet(c) /\ Done(c) /\ WellFormedName(c.filename)) =>
           Resp(c).status \in {200, 404}
      /\ ~c.unhandled

C4_Witness ==
  /\ \E i \in Requests :
       /\ IsGet(req[i]) /\ Done(req[i])
       /\ req[i].cdnResult = <<"error", 0, "timeout of 15000ms exceeded">>
       /\ Resp(req[i]).status = 404
  /\ \E i \in Requests :
       IsGet(req[i]) /\ Done(req[i]) /\ req[i].cdnResult = <<"response", 204, "empty">>

\* ------------------------------------------------------------------ C5
\* C5: every response of the GET handler, with status 200, 400 or 404,
\* carries Access-Control-Allow-Origin: *, Access-Control-Allow-Methods:
\* GET, OPTIONS and Access-Control-Allow-Headers: *.
C5_CorsOnEveryGetResponse ==
  \A i \in Requests :
    (IsGet(req[i]) /\ Done(req[i])) => HasCorsHeaders(Resp(req[i]).headers)

\* ------------------------------------------------------------------ C6
\* C6: an OPTIONS request always ends with status 204, an empty body and the
\* three CORS headers (Allow-Origin *, Allow-Methods GET, OPTIONS,
\* Allow-Headers *), whatever the filename, with no read and no fetch.
C6_OptionsAnswer ==
  \A i \in Requests :
    LET c == req[i] IN
      IsOptions(c) =>
        /\ Done(c) /\ Len(c.sent) = 1
        /\ Resp(c).status = 204
        /\ Resp(c).body = <<"null", "">>
        /\ HasCorsHeaders(Resp(c).headers)
        /\ NoIO(c)

\* ------------------------------------------------------------------ C7
\* C7: a local read that fails with a code other than ENOENT does not fail
\* the request: it is logged, the local read is not retried, the CDN is
\* fetched exactly once and the response is the one the CDN outcome decides
\* (200 with the CDN's bytes, else 404), the same as for a plain local miss.
LocalErrorLog(c) == <<"Error reading local file:", c.localResult>>

C7_LocalErrorFallsBackToCdn ==
  /\ \A i \in Requests :
       LET c == req[i] IN
         (IsGet(c) /\ c.localResult \in LocalErrors \ {"ENOENT"}) =>
           /\ Len(c.logged) >= 1 /\ c.logged[1] = LocalErrorLog(c)
           /\ Len(c.reads) = 1 /\ Len(c.fetches) = 1
           /\ ~c.unhandled
           /\ Done(c) =>
                /\ c.cdnResult # <<>> /\ Len(c.sent) = 1
                /\ IF CdnHit(c)
                     THEN /\ Resp(c).status = 200
                          /\ Resp(c).body = <<"bytes", c.cdnResult[3]>>
                     ELSE /\ Resp(c).status = 404
                          /\ Resp(c).body = NotFoundBody
  /\ \A i, j \in Requests :
       LET c == req[i]
           m == req[j]
       IN  ( /\ IsGet(c) /\ Done(c) /\ c.localResult \in LocalErrors \ {"ENOENT"}
             /\ IsGet(m) /\ Done(m) /\ m.localResult = "ENOENT"
             /\ c.cdnResult = m.cdnResult ) =>
             /\ c.sent = m.sent
             /\ c.fetches = [k \in 1..Len(m.fetches) |->
                               [m.fetches[k] EXCEPT !.url = CdnUrl(c.filename)]]
             /\ c.logged = <<LocalErrorLog(c)>> \o m.logged

C7_Witness ==
  \E i, j \in Requests :
    /\ IsGet(req[i]) /\ Done(req[i]) /\ req[i].localResult = "EACCES"
    /\ IsGet(req[j]) /\ Done(req[j]) /\ req[j].localResult = "ENOENT"
    /\ CdnHit(req[i]) /\ req[i].cdnResult = req[j].cdnResult
    /\ Resp(req[i]).status = 200

\* ------------------------------------------------------------------ C8
\* C8: every GET request eventually completes, with exactly one response,
\* whose status is 400 (invalid filename), 200 or 404; a request never has
\* two responses and a finished request never has none.
OneOutcome(c) ==
  /\ Len(c.sent) <= 1
  /\ Done(c) <=> Len(c.sent) = 1
  /\ (IsGet(c) /\ Done(c)) =>
       /\ Resp(c).status \in {200, 400, 404}
       /\ Resp(c).status = 400 <=> ~WellFormedName(c.filename)

C8_EveryGetCompletesOnce ==
  /\ [](\A i \in Requests : OneOutcome(req[i]))
  /\ \A i \in Requests : IsGet(req[i]) ~> (Done(req[i]) /\ Len(req[i].sent) = 1)

C8_Witness ==
  \E i \in Requests :
    /\ IsGet(req[i]) /\ Done(req[i]) /\ req[i].cdnResult # <<>>
    /\ Len(req[i].sent) = 1

\* ------------------------------------------------------------------ C9
\* C9: the response to a request is determined by its method, filename and
\* the outcomes of the two tiers: two finished requests that agree on these
\* have identical responses, whatever other requests ran before or between;
\* a step of one request changes no other request's context and nothing
\* writes the local store; the only I/O issued is a file read and an HTTP GET.
SameInputs(c, m) ==
  /\ c.method = m.method /\ c.filename = m.filename /\ c.acrh = m.acrh
  /\ c.localResult = m.localResult /\ c.cdnResult = m.cdnResult

ReadOnlyIO(c) ==
  /\ \A k \in 1..Len(c.reads) : c.reads[k].op = "readFile"
  /\ \A k \in 1..Len(c.fetches) : c.fetches[k].op = "GET"

C9_StatelessIdempotent ==
  /\ [](\A i, j \in Requests :
          (Done(req[i]) /\ Done(req[j]) /\ SameInputs(req[i], req[j])) =>
            req[i].sent = req[j].sent)
  /\ [](\A i \in Requests : ReadOnlyIO(req[i]))
  /\ [][ /\ localStore' = localStore
         /\ \A i, j \in Requests :
              (i # j /\ req'[i] # req[i]) => req'[j] = req[j] ]_vars

C9_Witness ==
  \E i, j \in Requests :
    /\ i # j
    /\ IsGet(req[i]) /\ Done(req[i]) /\ Done(req[j]) /\ SameInputs(req[i], req[j])
    /\ req[i].cdnResult = <<"error", 404, "Request failed">>
    /\ Resp(req[i]).status = 404

\* ----------------------------------------------------------------- C10
\* C10: Content-Type: image/gif and Cache-Control: public, max-age=31536000,
\* immutable are on every 200 response, and no 400 or 404 response of the
\* GET handler carries the immutable Cache-Control.
C10_CacheHeadersOnlyOnFound ==
  \A i \in Requests :
    LET c == req[i] IN
      (IsGet(c) /\ Done(c)) =>
        IF Resp(c).status = 200
          THEN /\ HeadersGet(Resp(c).headers, ContentType) = "image/gif"
               /\ HeadersGet(Resp(c).headers, CacheControl) = Immutable
          ELSE HeadersGet(Resp(c).headers, CacheControl) # Immutable

====
